---- MODULE Spec2Model ----
(***************************************************************************)
(* mini-csrf: a stateless HMAC anti-forgery token for Express.             *)
(*                                                                         *)
(* The module models src/mini-csrf.js: construction (csrfProtection), the  *)
(* token codec (generateToken), the identity deriver (getUserIdentifier),  *)
(* the validator (middleware), the renderer (csrfTokenHtml) and the        *)
(* constant-time comparison (constantTimeEquals).                          *)
(*                                                                         *)
(* Specifications:                                                         *)
(*   Spec            one instance serving forms and submissions            *)
(*   SpecConfig      csrfProtection over a range of options objects        *)
(*   SpecAlias       SpecConfig with a caller that keeps its fieldNames    *)
(*   SpecEquals      constantTimeEquals, statement by statement            *)
(*   SpecConcurrent  interleaved invocations on one instance               *)
(*                                                                         *)
(* JavaScript strings are sequences of UTF-16 code units (naturals), so    *)
(* that concatenation, charCodeAt, toUpperCase, Number(...) and            *)
(* Number.prototype.toString are computed, not assumed.                    *)
(***************************************************************************)
EXTENDS Integers, Sequences, FiniteSets, TLC

(***************************************************************************)
(* JavaScript values that reach the library.                               *)
(*   undefined                  an absent property                         *)
(*   null                                                                  *)
(*   a string                   Str(s), s a sequence of code units         *)
(*   a number                   Num(n), NaN, Infinity, -Infinity           *)
(*   an object with no usable toString/valueOf, e.g. the JSON body value   *)
(*   {"toString": 0}: truthy, and every conversion of it to a primitive    *)
(*   raises a TypeError.                                                   *)
(*   a built-in function        NativeFunction(name), what a property      *)
(*                              lookup finds on Object.prototype           *)
(*   Object.prototype itself    what obj["__proto__"] gives                *)
(***************************************************************************)
Undefined == [k |-> "undefined"]
Str(s) == [k |-> "string", s |-> s]
Num(n) == [k |-> "number", n |-> n]
NaN == [k |-> "NaN"]
PosInfinity == [k |-> "Infinity", neg |-> FALSE]
NegInfinity == [k |-> "Infinity", neg |-> TRUE]
OpaqueObject == [k |-> "object"]
Null == [k |-> "null"]
NativeFunction(name) == [k |-> "function", name |-> name]
ObjectPrototype == [k |-> "prototype"]

IsStr(v) == v.k = "string"

\* !v is false: JavaScript truthiness of a value.
Truthy(v) ==
  CASE v.k = "undefined" -> FALSE
    [] v.k = "null" -> FALSE
    [] v.k = "string" -> Len(v.s) > 0
    [] v.k = "number" -> v.n # 0
    [] v.k = "NaN" -> FALSE
    [] OTHER -> TRUE

\* ToPrimitive(v) raises a TypeError (string concatenation, String(v), Number(v)).
ToPrimitiveThrows(v) == v.k = "object"

\* v || ""
OrEmptyValue(v) == IF Truthy(v) THEN v ELSE Str(<< >>)

(***************************************************************************)
(* String literals of the source, as code units.                           *)
(***************************************************************************)
GET == <<71, 69, 84>>
HEAD == <<72, 69, 65, 68>>
OPTIONS == <<79, 80, 84, 73, 79, 78, 83>>
\* fieldNames = { token: "_csrf_token", time: "_csrf_time" }
DefaultTokenField == <<95, 99, 115, 114, 102, 95, 116, 111, 107, 101, 110>>
DefaultTimeField == <<95, 99, 115, 114, 102, 95, 116, 105, 109, 101>>
\* the literal "Infinity" of the StringToNumber grammar
InfinityLiteral == <<73, 110, 102, 105, 110, 105, 116, 121>>

\* ttl = 3600_000
DefaultTtl == 3600000
\* secret.length < 32
MinSecretLength == 32
\* .digest("hex") of a SHA-256 HMAC: 32 bytes, 64 hexadecimal digits
DigestHexLength == 64

(***************************************************************************)
(* Bit operations on non-negative integers (^ and | of the source).        *)
(***************************************************************************)
RECURSIVE BitXor(_, _)
BitXor(a, b) ==
  IF a = b THEN 0
  ELSE IF a = 0 THEN b
  ELSE IF b = 0 THEN a
  ELSE (((a % 2) + (b % 2)) % 2) + (2 * BitXor(a \div 2, b \div 2))

RECURSIVE BitOr(_, _)
BitOr(a, b) ==
  IF a = 0 THEN b
  ELSE IF b = 0 THEN a
  ELSE (IF (a % 2) = 1 \/ (b % 2) = 1 THEN 1 ELSE 0) + (2 * BitOr(a \div 2, b \div 2))

Max(a, b) == IF a >= b THEN a ELSE b

(***************************************************************************)
(* String.prototype.toUpperCase on the ASCII range.                        *)
(***************************************************************************)
UpperChar(c) == IF c >= 97 /\ c <= 122 THEN c - 32 ELSE c
toUpperCase(s) == [i \in 1..Len(s) |-> UpperChar(s[i])]

(***************************************************************************)
(* Number.prototype.toString of a non-negative integer (Date.now()); the   *)
(* sign of a negative one is added by ToStringJS.                          *)
(***************************************************************************)
RECURSIVE DecimalString(_)
DecimalString(n) ==
  IF n < 10 THEN <<48 + n>>
  ELSE Append(DecimalString(n \div 10), 48 + (n % 10))

(***************************************************************************)
(* Number(v): StringToNumber on a string.  Leading and trailing white      *)
(* space is dropped; the empty string is 0; an optional sign followed by   *)
(* "Infinity" or by decimal digits is that number; anything else is NaN.   *)
(* Exact for strings without '.', an exponent or a 0x/0o/0b prefix, which  *)
(* is what the requests of this model carry.                               *)
(***************************************************************************)
\* StrWhiteSpaceChar: the WhiteSpace and LineTerminator code points
IsWhiteSpace(c) ==
  \/ c \in {9, 10, 11, 12, 13, 32, 160, 5760}
  \/ c >= 8192 /\ c <= 8202
  \/ c \in {8232, 8233, 8239, 8287, 12288, 65279}
IsDigit(c) == c >= 48 /\ c <= 57

RECURSIVE TrimLeft(_)
TrimLeft(s) ==
  IF Len(s) > 0 /\ IsWhiteSpace(s[1]) THEN TrimLeft(Tail(s)) ELSE s

RECURSIVE TrimRight(_)
TrimRight(s) ==
  IF Len(s) > 0 /\ IsWhiteSpace(s[Len(s)])
  THEN TrimRight(SubSeq(s, 1, Len(s) - 1))
  ELSE s

RECURSIVE DigitsValue(_)
DigitsValue(s) ==
  IF Len(s) = 0 THEN 0
  ELSE (10 * DigitsValue(SubSeq(s, 1, Len(s) - 1))) + (s[Len(s)] - 48)

UnsignedToNumber(s, neg) ==
  IF s = InfinityLiteral THEN (IF neg THEN NegInfinity ELSE PosInfinity)
  ELSE IF Len(s) > 0 /\ \A i \in 1..Len(s) : IsDigit(s[i])
       THEN Num(IF neg THEN 0 - DigitsValue(s) ELSE DigitsValue(s))
       ELSE NaN

StringToNumber(s) ==
  LET t == TrimRight(TrimLeft(s)) IN
  IF Len(t) = 0 THEN Num(0)
  ELSE IF t[1] = 45 THEN UnsignedToNumber(Tail(t), TRUE)
  ELSE IF t[1] = 43 THEN UnsignedToNumber(Tail(t), FALSE)
  ELSE UnsignedToNumber(t, FALSE)

\* now - x, for now a finite number (Date.now()).
Minus(now, x) ==
  CASE x.k = "number" -> Num(now - x.n)
    [] x.k = "Infinity" -> (IF x.neg THEN PosInfinity ELSE NegInfinity)
    [] OTHER -> NaN

\* Number(v): null is 0; undefined is NaN, and so are a built-in function
\* and Object.prototype, whose texts are not numerals
ToNumber(v) ==
  CASE v.k = "string" -> StringToNumber(v.s)
    [] v.k = "number" -> v
    [] v.k = "Infinity" -> v
    [] v.k = "null" -> Num(0)
    [] OTHER -> NaN

isNaN(x) == ToNumber(x).k = "NaN"

\* x < y and x > y where one side is a number: both sides are converted to
\* numbers and the comparison is false as soon as one of them is NaN.
LessThan(x, y) ==
  LET a == ToNumber(x)
      b == ToNumber(y)
  IN CASE a.k = "NaN" \/ b.k = "NaN" -> FALSE
       [] a.k = "Infinity" -> a.neg /\ ~(b.k = "Infinity" /\ b.neg)
       [] b.k = "Infinity" -> ~b.neg
       [] OTHER -> a.n < b.n

GreaterThan(x, y) == LessThan(y, x)

(***************************************************************************)
(* Conversions of a value that has a primitive value.                      *)
(***************************************************************************)
\* "function " + name + "() { [native code] }"
FunctionText(name) ==
  <<102, 117, 110, 99, 116, 105, 111, 110, 32>> \o name \o <<40, 41, 32, 123, 32, 91, 110, 97, 116, 105, 118, 101, 32, 99, 111, 100, 101, 93, 32, 125>>

\* "" + v and String(v)
ToStringJS(v) ==
  CASE v.k = "string" -> v.s
    [] v.k = "number" -> IF v.n < 0 THEN <<45>> \o DecimalString(0 - v.n)
                                    ELSE DecimalString(v.n)
    [] v.k = "NaN" -> <<78, 97, 78>>
    [] v.k = "Infinity" -> IF v.neg THEN <<45>> \o InfinityLiteral
                                      ELSE InfinityLiteral
    [] v.k = "null" -> <<110, 117, 108, 108>>
    [] v.k = "function" -> FunctionText(v.name)
    [] v.k = "prototype" -> <<91, 111, 98, 106, 101, 99, 116, 32, 79, 98, 106, 101, 99, 116, 93>>
    [] OTHER -> <<117, 110, 100, 101, 102, 105, 110, 101, 100>>

\* String(v || "")
OrEmpty(v) == ToStringJS(OrEmptyValue(v))

\* x + y of two numbers
AddNumbers(x, y) ==
  CASE x.k = "NaN" \/ y.k = "NaN" -> NaN
    [] x.k = "Infinity" /\ y.k = "Infinity" -> (IF x.neg = y.neg THEN x ELSE NaN)
    [] x.k = "Infinity" -> x
    [] y.k = "Infinity" -> y
    [] OTHER -> Num(x.n + y.n)

\* a + b: the sum of two values that are neither strings nor objects, the
\* concatenation of the two texts otherwise
IsNumeric(v) == v.k \in {"undefined", "null", "number", "NaN", "Infinity"}
Plus(a, b) ==
  IF IsNumeric(a) /\ IsNumeric(b)
  THEN AddNumbers(ToNumber(a), ToNumber(b))
  ELSE Str(ToStringJS(a) \o ToStringJS(b))

\* v.length, as a number: undefined (NaN in a comparison) unless v is a string.
LengthOf(v) == IF IsStr(v) THEN Num(Len(v.s)) ELSE NaN

(***************************************************************************)
(* crypto.createHmac("sha256", secret).update(message).digest("hex")       *)
(*                                                                         *)
(* The keyed hash is taken to be collision-free: the digest is an          *)
(* injective encoding of (key, message) as DigestHexLength lowercase       *)
(* hexadecimal digits.  One byte identifies the key, two digits encode     *)
(* each code unit of the message, and the rest is filled with "0".  The    *)
(* encoding is injective for the keys of this model and for messages of    *)
(* up to 31 code units below 256, none of them 0; the tokens that requests *)
(* of this model present are signed over such messages.                    *)
(***************************************************************************)
HexDigit(d) == IF d < 10 THEN 48 + d ELSE 87 + d
HexByte(c) == <<HexDigit((c \div 16) % 16), HexDigit(c % 16)>>

HexOf(s) ==
  [i \in 1..(2 * Len(s)) |-> HexByte(s[(i + 1) \div 2])[2 - (i % 2)]]

RECURSIVE SumOf(_)
SumOf(s) == IF Len(s) = 0 THEN 0 ELSE s[1] + SumOf(Tail(s))

KeyId(secret) == (SumOf(secret) + Len(secret)) % 256

Hmac(secret, message) ==
  LET full == HexByte(KeyId(secret)) \o HexOf(message) IN
  [i \in 1..DigestHexLength |-> IF i <= Len(full) THEN full[i] ELSE 48]

(***************************************************************************)
(* constantTimeEquals(a, b): a and b have a primitive value.               *)
(***************************************************************************)
CharCodeAt(s, i) == s[i + 1]

\* x1 | x2 | ... over the values of S, bit by bit from the lowest: a bit of
\* the result is set when it is set in one of the values
RECURSIVE OrAll(_)
OrAll(S) ==
  IF \A x \in S : x = 0 THEN 0
  ELSE (IF \E x \in S : (x % 2) = 1 THEN 1 ELSE 0) + (2 * OrAll({x \div 2 : x \in S}))

\* the loop stops one iteration early: i < maxLength - 1
constantTimeEquals_StopsEarly(a, b) ==
  LET strA == OrEmpty(a)
      strB == OrEmpty(b)
      maxLength == Max(Len(strA), Len(strB))
      charA(i) == IF i < Len(strA) THEN CharCodeAt(strA, i) ELSE 0
      charB(i) == IF i < Len(strB) THEN CharCodeAt(strB, i) ELSE 0
      result == OrAll({BitXor(Len(strA), Len(strB))}
                      \cup {BitXor(charA(i), charB(i)) : i \in 0..(maxLength - 2)})
  IN result = 0

\* The for loop visits every i in 0..maxLength-1, whatever the contents, and
\* or-s charA ^ charB into result; result ends as the or of its initial value
\* and of the value of every iteration.
constantTimeEquals(a, b) ==
  LET strA == OrEmpty(a)
      strB == OrEmpty(b)
      maxLength == Max(Len(strA), Len(strB))
      charA(i) == IF i < Len(strA) THEN CharCodeAt(strA, i) ELSE 0
      charB(i) == IF i < Len(strB) THEN CharCodeAt(strB, i) ELSE 0
      result == OrAll({BitXor(Len(strA), Len(strB))}
                      \cup {BitXor(charA(i), charB(i)) : i \in 0..(maxLength - 1)})
  IN result = 0

(***************************************************************************)
(* validateFieldName(name, type): TRUE when it returns, FALSE when it      *)
(* throws.  /^[a-zA-Z0-9_-]+$/                                             *)
(***************************************************************************)
\* the ranges written as /^[A-z0-9_-]+$/
IsFieldNameChar_WideRange(c) ==
  \/ c >= 65 /\ c <= 122
  \/ c >= 48 /\ c <= 57
  \/ c = 95
  \/ c = 45

IsFieldNameChar(c) ==
  \/ c >= 97 /\ c <= 122
  \/ c >= 65 /\ c <= 90
  \/ c >= 48 /\ c <= 57
  \/ c = 95
  \/ c = 45

validateFieldName(name) ==
  /\ IsStr(name)
  /\ Len(name.s) > 0
  /\ \A i \in 1..Len(name.s) : IsFieldNameChar(name.s[i])

(***************************************************************************)
(* csrfProtection(options): the configured instance, or the error thrown.  *)
(***************************************************************************)
FieldNames(token, time) == [k |-> "object", token |-> token, time |-> time]
DefaultFieldNames == FieldNames(Str(DefaultTokenField), Str(DefaultTimeField))

ConfigError(message) == [ok |-> FALSE, error |-> message]

\* obj.name: undefined when obj is a primitive or has no such property
GetProp(obj, name) ==
  IF obj.k = "object" /\ name \in DOMAIN obj THEN obj[name] ELSE Undefined

\* The instance keeps secret and ttl by value and fieldNames by reference:
\* when the caller supplied fieldNames, the closures read the caller's object.
csrfProtection(options) ==
  LET secret == options.secret
      fieldNames == IF options.fieldNames.k = "undefined"
                    THEN DefaultFieldNames ELSE options.fieldNames
      ttl == IF options.ttl.k = "undefined" THEN Num(DefaultTtl) ELSE options.ttl
      tokenName == GetProp(fieldNames, "token")
      timeName == GetProp(fieldNames, "time")
  IN IF ~Truthy(secret) \/ LessThan(LengthOf(secret), Num(MinSecretLength))
     THEN ConfigError("CSRF secret must be at least 32 characters long")
     ELSE IF fieldNames.k = "null"
     THEN ConfigError("TypeError: Cannot read properties of null")
     ELSE IF ~validateFieldName(tokenName)
     THEN ConfigError("Invalid token field name")
     ELSE IF ~validateFieldName(timeName)
     THEN ConfigError("Invalid time field name")
     ELSE IF tokenName = timeName
     THEN ConfigError("Token and time field names must be different")
     ELSE [ok |-> TRUE, secret |-> secret,
           fieldNames |-> [token |-> tokenName.s, time |-> timeName.s],
           ttl |-> ttl]

(***************************************************************************)
(* The closures of a configured instance c.                                *)
(***************************************************************************)
\* crypto.createHmac("sha256", secret) raises a TypeError unless the key is a
\* string (a number or a plain object is not a key)
HmacThrows(secret) == ~IsStr(secret)

\* getUserIdentifier(req): (req.ip || "") + (req.headers["user-agent"] || "")
getUserIdentifier(req) ==
  Plus(OrEmptyValue(req.ip), OrEmptyValue(req.headers["user-agent"]))

\* getUserIdentifier(req) raises: one of the two values has no primitive value
getUserIdentifierThrows(req) ==
  \/ ToPrimitiveThrows(OrEmptyValue(req.ip))
  \/ ToPrimitiveThrows(OrEmptyValue(req.headers["user-agent"]))

\* generateToken(userIdentifier, timestamp) raises: the key is not a string,
\* timestamp has no primitive value, or userIdentifier + timestamp is a number,
\* which hash.update does not take
generateTokenThrows(secret, userIdentifier, timestamp) ==
  \/ HmacThrows(secret)
  \/ ToPrimitiveThrows(timestamp)
  \/ ~IsStr(Plus(userIdentifier, timestamp))

\* generateToken(userIdentifier, timestamp), when it does not raise
generateToken(secret, userIdentifier, timestamp) ==
  Hmac(secret.s, Plus(userIdentifier, timestamp).s)

\* makeCsrfError(message)
makeCsrfError(message) == [code |-> "EBADCSRFTOKEN", message |-> message]

\* The properties every object inherits from Object.prototype: its methods
\* and the __proto__ accessor.
ObjectPrototypeMethods ==
  {<<99, 111, 110, 115, 116, 114, 117, 99, 116, 111, 114>>,
   <<104, 97, 115, 79, 119, 110, 80, 114, 111, 112, 101, 114, 116, 121>>,
   <<105, 115, 80, 114, 111, 116, 111, 116, 121, 112, 101, 79, 102>>,
   <<112, 114, 111, 112, 101, 114, 116, 121, 73, 115, 69, 110, 117, 109, 101, 114, 97, 98, 108, 101>>,
   <<116, 111, 76, 111, 99, 97, 108, 101, 83, 116, 114, 105, 110, 103>>,
   <<116, 111, 83, 116, 114, 105, 110, 103>>,
   <<118, 97, 108, 117, 101, 79, 102>>,
   <<95, 95, 100, 101, 102, 105, 110, 101, 71, 101, 116, 116, 101, 114, 95, 95>>,
   <<95, 95, 100, 101, 102, 105, 110, 101, 83, 101, 116, 116, 101, 114, 95, 95>>,
   <<95, 95, 108, 111, 111, 107, 117, 112, 71, 101, 116, 116, 101, 114, 95, 95>>,
   <<95, 95, 108, 111, 111, 107, 117, 112, 83, 101, 116, 116, 101, 114, 95, 95>>}
ProtoAccessor == <<95, 95, 112, 114, 111, 116, 111, 95, 95>>
ObjectPrototypeNames == ObjectPrototypeMethods \union {ProtoAccessor}

\* Object.prototype[name] read through an object that inherits from it
ObjectPrototypeGet(name) ==
  IF name = ProtoAccessor THEN ObjectPrototype
  ELSE IF name = <<99, 111, 110, 115, 116, 114, 117, 99, 116, 111, 114>> THEN NativeFunction(<<79, 98, 106, 101, 99, 116>>)
  ELSE NativeFunction(name)

\* the body has no prototype (querystring.parse, Object.create(null))
HasNullPrototype(body) == "proto" \in DOMAIN body /\ body.proto = "null"

\* req.body?.[name]: undefined when the body is undefined or null; the body's
\* own property; otherwise the property found on its prototype chain
BodyGet(body, name) ==
  IF body.k \in {"undefined", "null"} THEN Undefined
  ELSE IF name \in DOMAIN body.fields THEN body.fields[name]
  ELSE IF ~HasNullPrototype(body) /\ name \in ObjectPrototypeNames
  THEN ObjectPrototypeGet(name)
  ELSE Undefined

(***************************************************************************)
(* middleware(req, res, next) at clock reading now.  The result is what    *)
(* the caller observes: the invocations of next in order (NoError for      *)
(* next(), the error for next(err)) and whether the call raised.           *)
(***************************************************************************)
NoError == [code |-> "none", message |-> ""]
Returned(calls) == [next |-> calls, threw |-> FALSE]
Threw == [next |-> << >>, threw |-> TRUE]

\* ["GET", "HEAD", "OPTIONS"].includes(req.method.toUpperCase()), without
\* the conversion to upper case
isExemptMethod_CaseSensitive(method) == method \in {GET, HEAD, OPTIONS}

\* ["GET", "HEAD", "OPTIONS"].includes(req.method.toUpperCase())
isExemptMethod(method) == toUpperCase(method) \in {GET, HEAD, OPTIONS}

\* !token || !time
isMissing(token, time) == ~Truthy(token) \/ ~Truthy(time)

\* age < 0 || age > ttl
isExpired_NoNaNCheck(age, ttl) ==
  LessThan(age, Num(0)) \/ GreaterThan(age, ttl)

\* isNaN(age) || age < 0
isExpired_NoTtlCheck(age, ttl) == isNaN(age) \/ LessThan(age, Num(0))

\* isNaN(age) || age > ttl
isExpired_NoFutureCheck(age, ttl) == isNaN(age) \/ GreaterThan(age, ttl)

\* isNaN(age) || age < 0 || age >= ttl
isExpired_TtlInclusive(age, ttl) ==
  isNaN(age) \/ LessThan(age, Num(0)) \/ GreaterThan(age, ttl) \/ age = ttl

\* isNaN(age) || age < 0 || age > ttl
isExpired(age, ttl) ==
  isNaN(age) \/ LessThan(age, Num(0)) \/ GreaterThan(age, ttl)

middleware(c, req, now) ==
  IF isExemptMethod(req.method) THEN Returned(<<NoError>>)
  ELSE
    LET token == BodyGet(req.body, c.fieldNames.token)
        time == BodyGet(req.body, c.fieldNames.time)
    IN IF isMissing(token, time)
       THEN Returned(<<makeCsrfError("Missing CSRF token or timestamp")>>)
       ELSE IF \/ getUserIdentifierThrows(req)
               \/ generateTokenThrows(c.secret, getUserIdentifier(req), time)
       THEN Threw
       ELSE
         LET expected == generateToken(c.secret, getUserIdentifier(req), time)
             age == Minus(now, ToNumber(time))
         IN IF ToPrimitiveThrows(token)
            THEN Threw
            ELSE IF ~constantTimeEquals(token, Str(expected))
            THEN Returned(<<makeCsrfError("Invalid CSRF token")>>)
            ELSE IF isExpired(age, c.ttl)
            THEN Returned(<<makeCsrfError("Expired CSRF token")>>)
            ELSE Returned(<<NoError>>)

(***************************************************************************)
(* csrfTokenHtml(req) at clock reading now: the two hidden inputs of the   *)
(* markup, in order, each with its name and value attributes; Threw when   *)
(* the call raises.                                                        *)
(***************************************************************************)
\* the token is computed from the identity alone: generateToken(userId, "")
csrfTokenHtml_TokenWithoutTime(c, req, now) ==
  LET time == DecimalString(now)
      userId == getUserIdentifier(req)
      token == generateToken(c.secret, userId, Str(<< >>))
  IN IF getUserIdentifierThrows(req) \/ generateTokenThrows(c.secret, userId, Str(time))
     THEN Threw
     ELSE <<[name |-> c.fieldNames.token, value |-> token],
            [name |-> c.fieldNames.time, value |-> time]>>

csrfTokenHtml(c, req, now) ==
  LET time == DecimalString(now)
      userId == getUserIdentifier(req)
      token == generateToken(c.secret, userId, Str(time))
  IN IF getUserIdentifierThrows(req) \/ generateTokenThrows(c.secret, userId, Str(time))
     THEN Threw
     ELSE <<[name |-> c.fieldNames.token, value |-> token],
            [name |-> c.fieldNames.time, value |-> time]>>

(***************************************************************************)
(* The environment: configurations, clock readings and requests.           *)
(***************************************************************************)
\* how many single ticks of the clock the model follows on either side of a
\* DefaultTtl jump
MaxSmall == 2

Repeat(c, n) == [i \in 1..n |-> c]

\* "aaaa...a" (32), "bbbb...b" (33) and a secret one character too short
SecretA == Str(Repeat(97, MinSecretLength))
SecretB == Str(Repeat(98, MinSecretLength + 1))
SecretShort == Str(Repeat(97, MinSecretLength - 1))

\* fieldNames: { token: "t-k", time: "t_m" }
CustomFieldNames == FieldNames(Str(<<116, 45, 107>>), Str(<<116, 95, 109>>))

\* fieldNames: { token: "constructor", time: "valueOf" }, two names that every
\* plain object inherits
InheritedFieldNames == FieldNames(Str(<<99, 111, 110, 115, 116, 114, 117, 99, 116, 111, 114>>), Str(<<118, 97, 108, 117, 101, 79, 102>>))

Options ==
  { [secret |-> SecretA, fieldNames |-> Undefined, ttl |-> Undefined],
    [secret |-> SecretB, fieldNames |-> CustomFieldNames, ttl |-> Num(1)],
    [secret |-> SecretA, fieldNames |-> InheritedFieldNames, ttl |-> Undefined],
    [secret |-> SecretA, fieldNames |-> Undefined, ttl |-> NaN],
    [secret |-> SecretShort, fieldNames |-> Undefined, ttl |-> Undefined],
    [secret |-> Undefined, fieldNames |-> Undefined, ttl |-> Undefined],
    [secret |-> SecretA,
     fieldNames |-> FieldNames(Str(DefaultTimeField), Str(DefaultTimeField)),
     ttl |-> Undefined],
    [secret |-> SecretA,
     fieldNames |-> FieldNames(Str(<<116, 34>>), Str(DefaultTimeField)),
     ttl |-> Undefined] }

\* Date.now(): a few ticks from 0 and a few ticks from DefaultTtl
ClockValues == {a + (b * DefaultTtl) : a \in 0..MaxSmall, b \in 0..1}

\* request methods, in several letter cases
POST == <<80, 79, 83, 84>>
Methods ==
  { GET, <<104, 101, 97, 100>>, <<79, 112, 116, 105, 111, 110, 115>>,
    POST, <<112, 117, 116>>, <<80, 65, 84, 67, 72>>, <<68, 69, 76, 69, 84, 69>> }
SafeMethods == {m \in Methods : toUpperCase(m) \in {GET, HEAD, OPTIONS}}
UnsafeMethods == Methods \ SafeMethods

\* req.ip and req.headers["user-agent"]: absent, "1", "12" and absent, "2"
Addresses == {Undefined, Str(<<49>>), Str(<<49, 50>>)}
UserAgents == {Undefined, Str(<<50>>)}

\* the (address, user agent) pairs of requests built without a form
DirectIdentities ==
  { [ip |-> Undefined, ua |-> Undefined],
    [ip |-> Str(<<49>>), ua |-> Str(<<50>>)] }

Headers(ua) == [h \in {"user-agent"} |-> ua]
Request(method, ip, ua, body) ==
  [method |-> method, ip |-> ip, headers |-> Headers(ua), body |-> body]

\* a body object with the two given properties: a plain object, as a JSON
\* parser makes it.  A field given as undefined is a property the body does
\* not have.
Body(tokenName, token, timeName, time) ==
  LET present == {n \in {tokenName, timeName} :
                    (IF n = tokenName THEN token ELSE time).k # "undefined"}
  IN [k |-> "object", proto |-> "Object.prototype",
      fields |-> [n \in present |-> IF n = tokenName THEN token ELSE time]]

\* the bodies that carry no field: none, null, {} and Object.create(null)
EmptyBodies ==
  { Undefined, Null,
    [k |-> "object", proto |-> "Object.prototype", fields |-> << >>],
    [k |-> "object", proto |-> "null", fields |-> << >>] }

\* the values a request may carry in its time field: strings, the JSON number
\* -1, an unconvertible object, or nothing
TimeValues ==
  { Undefined, Str(<< >>), OpaqueObject, Num(0 - 1),
    Str(<<97>>), Str(<<32, 49>>), Str(<<160, 49>>), Str(<<48, 49>>), Str(<<45, 49>>),
    Str(InfinityLiteral) }
  \cup {Str(DecimalString(t)) : t \in ClockValues}

\* the ways a request's token field is filled for a given time value
TokenKinds == {"absent", "empty", "object", "junk", "signed", "otherkey"}

TokenOf(kind, c, ip, ua, time) ==
  LET id == OrEmpty(ip) \o OrEmpty(ua)
      t == IF ToPrimitiveThrows(time) THEN Undefined ELSE time
      key == IF IsStr(c.secret) THEN c.secret.s ELSE << >>
  IN CASE kind = "absent" -> Undefined
       [] kind = "empty" -> Str(<< >>)
       [] kind = "object" -> OpaqueObject
       [] kind = "junk" -> Str(<<97, 98>>)
       [] kind = "signed" -> Str(Hmac(key, id \o ToStringJS(t)))
       [] OTHER -> Str(Hmac(IF key = SecretA.s THEN SecretB.s ELSE SecretA.s,
                            id \o ToStringJS(t)))

NoForm == [k |-> "none"]
NoCall == [k |-> "none"]
NoTasks == << >>
NoCompare == [pc |-> "none"]

VARIABLES
  options, \* the object the caller passed to csrfProtection, and still holds
  inst,    \* the result of csrfProtection(options)
  now,     \* Date.now()
  form,    \* the markup the client holds from the latest csrfTokenHtml call
  last,    \* the latest middleware call at this clock reading and what it did
  tasks,   \* the invocations in progress when requests are served concurrently
  cte      \* an execution of constantTimeEquals, statement by statement

vars == <<options, inst, now, form, last, tasks, cte>>

Init ==
  /\ options \in Options
  /\ inst = csrfProtection(options)
  /\ now = 0
  /\ form = NoForm
  /\ last = NoCall
  /\ tasks = NoTasks
  /\ cte = NoCompare

\* time passes between two exchanges
Advance ==
  /\ inst.ok
  /\ last = NoCall
  /\ \E t \in ClockValues : t > now /\ now' = t
  /\ UNCHANGED <<inst, form, last, options, tasks, cte>>

\* csrf.csrfTokenHtml(req) while serving a form to a client
Render ==
  /\ inst.ok
  /\ last = NoCall
  /\ \E ip \in Addresses, ua \in UserAgents :
       LET req == Request(GET, ip, ua, Undefined) IN
       form' = IF \/ getUserIdentifierThrows(req)
                  \/ generateTokenThrows(inst.secret, getUserIdentifier(req),
                                         Str(DecimalString(now)))
               THEN NoForm
               ELSE [k |-> "form", req |-> req, at |-> now,
                     markup |-> csrfTokenHtml(inst, req, now)]
  /\ UNCHANGED <<inst, now, last, options, tasks, cte>>

\* the client drops the form it holds
Discard ==
  /\ last = NoCall
  /\ form # NoForm
  /\ form' = NoForm
  /\ UNCHANGED <<inst, now, last, options, tasks, cte>>

Call(kind, req) ==
  [k |-> kind, req |-> req, result |-> middleware(inst, req, now)]

\* csrf.middleware(req, res, next) on a request whose body carries no field
ValidateNoBody ==
  /\ inst.ok
  /\ form = NoForm
  /\ last = NoCall
  /\ \E m \in Methods, ip \in Addresses, ua \in UserAgents, body \in EmptyBodies :
       last' = Call("direct", Request(m, ip, ua, body))
  /\ UNCHANGED <<inst, now, form, options, tasks, cte>>

\* csrf.middleware(req, res, next) on a request whose body carries the two
\* fields, under the configured names or under the default names
ValidateDirect ==
  /\ inst.ok
  /\ form = NoForm
  /\ last = NoCall
  /\ \E m \in Methods, id \in DirectIdentities,
        time \in TimeValues, kind \in TokenKinds,
        names \in {inst.fieldNames,
                   [token |-> DefaultTokenField, time |-> DefaultTimeField]} :
       last' = Call("direct",
                    Request(m, id.ip, id.ua,
                            Body(names.token, TokenOf(kind, inst, id.ip, id.ua, time),
                                 names.time, time)))
  /\ UNCHANGED <<inst, now, form, options, tasks, cte>>

\* the body a browser posts from the form: both inputs, names and values verbatim
FormBody(markup) ==
  Body(markup[1].name, Str(markup[1].value), markup[2].name, Str(markup[2].value))

\* the client submits the form it holds, from any address and user agent
Submit ==
  /\ inst.ok
  /\ form # NoForm
  /\ last = NoCall
  /\ \E m \in Methods, ip \in Addresses, ua \in UserAgents :
       last' = Call("submit", Request(m, ip, ua, FormBody(form.markup)))
  /\ UNCHANGED <<inst, now, form, options, tasks, cte>>

\* what next() received when the request was let through
Accepted(result) == ~result.threw /\ result.next = <<NoError>>

\* the characters a tampering client writes over one character of a token
TamperChars == {48, 103}

ReplaceAt(str, pos, c) == [i \in 1..Len(str) |-> IF i = pos THEN c ELSE str[i]]

\* the client changes one character of the token of a POST it has just had
\* accepted from the form, and posts the request again
Tamper ==
  /\ inst.ok
  /\ last # NoCall
  /\ last.k = "submit"
  /\ toUpperCase(last.req.method) = POST
  /\ Accepted(last.result)
  /\ \E pos \in 1..DigestHexLength, c \in TamperChars :
       LET fields == last.req.body.fields
           token == fields[inst.fieldNames.token].s
           req == [last.req EXCEPT !.body.fields[inst.fieldNames.token] =
                     Str(ReplaceAt(token, pos, c))]
       IN /\ token[pos] # c
          /\ last' = [k |-> "tamper", req |-> req,
                      result |-> middleware(inst, req, now), base |-> last.req]
  /\ UNCHANGED <<inst, now, form, options, tasks, cte>>

\* how many times the model follows a client presenting one request again
MaxReplays == 2

\* the outcomes of the earlier presentations of the request of a call
Seen(call) == IF call.k = "replay" THEN call.seen ELSE << >>

\* the request carries the token that signs its time field for its sender
Signed(c, req) ==
  LET token == BodyGet(req.body, c.fieldNames.token)
      time == BodyGet(req.body, c.fieldNames.time)
  IN /\ IsStr(token)
     /\ ~getUserIdentifierThrows(req)
     /\ ~generateTokenThrows(c.secret, getUserIdentifier(req), time)
     /\ token.s = generateToken(c.secret, getUserIdentifier(req), time)

\* the client posts a signed request of the exchange again, unchanged, at this
\* or at a later clock reading
Replay ==
  /\ inst.ok
  /\ last # NoCall
  /\ last.k \in {"direct", "submit", "replay"}
  /\ last.req.method = POST
  /\ last.req.body.k = "object"
  /\ Signed(inst, last.req)
  /\ Len(Seen(last)) < MaxReplays
  /\ \E t \in ClockValues :
       /\ t >= now
       /\ now' = t
       /\ last' = [k |-> "replay", req |-> last.req,
                   result |-> middleware(inst, last.req, t),
                   seen |-> Append(Seen(last), [at |-> now, result |-> last.result])]
  /\ UNCHANGED <<inst, form, options, tasks, cte>>

\* the exchange is over: the pipeline has run the continuation's handler
Respond ==
  /\ last # NoCall
  /\ last' = NoCall
  /\ UNCHANGED <<inst, now, form, options, tasks, cte>>

Next ==
  \/ Advance
  \/ Render
  \/ Discard
  \/ ValidateNoBody
  \/ ValidateDirect
  \/ Submit
  \/ Tamper
  \/ Replay
  \/ Respond

Spec == Init /\ [][Next]_vars

(***************************************************************************)
(* Construction.  The caller builds an options object, calls               *)
(* csrfProtection(options) and, when it returns, serves forms and          *)
(* submissions with the instance.                                          *)
(***************************************************************************)
\* secrets: absent, empty, one character, 31, 32 and 33 characters, and the
\* numbers 0 and 1
SecretValues ==
  { Undefined, Str(<< >>), Str(<<97>>), SecretShort, SecretA, SecretB,
    Num(0), Num(1) }

\* characters next to the ranges of /^[a-zA-Z0-9_-]+$/, and a double quote
EdgeChars == {34, 44, 46, 47, 58, 64, 91, 94, 96, 123}

\* field names: absent, empty, a number, two well-formed names, "ab" with an
\* edge character before, between and after
NameValues ==
  { Undefined, Str(<< >>), Num(1), Str(<<116, 45, 107>>), Str(<<65, 95, 57>>),
    Str(<<97, 98, 34>>), Str(<<97, 34, 98>>) }
  \cup {Str(<<c, 97, 98>>) : c \in EdgeChars}

\* fieldNames: absent, null, a string, an object without properties, two
\* inherited names, and objects with every pair of names
FieldNamesValues ==
  {Undefined, Null, Str(<<97, 98>>), OpaqueObject, InheritedFieldNames}
  \cup {FieldNames(a, b) : a, b \in NameValues}

\* ttl: absent, null, 1, 0, -1, NaN, Infinity and the string "a"
TtlValues ==
  {Undefined, Null, Num(1), Num(0), Num(-1), NaN, PosInfinity, Str(<<97>>)}

ConfigOptions ==
  {[secret |-> x, fieldNames |-> Undefined, ttl |-> Undefined] : x \in SecretValues}
  \cup {[secret |-> SecretA, fieldNames |-> f, ttl |-> Undefined] : f \in FieldNamesValues}
  \cup {[secret |-> SecretA, fieldNames |-> Undefined, ttl |-> t] : t \in TtlValues}
  \cup {[secret |-> x, fieldNames |-> CustomFieldNames, ttl |-> Num(1)] :
           x \in {SecretShort, SecretB}}

\* csrfProtection has not been called yet
NotConstructed == [ok |-> FALSE, error |-> "csrfProtection not called"]

ConfigInit ==
  /\ options \in ConfigOptions
  /\ inst = NotConstructed
  /\ now = 0
  /\ form = NoForm
  /\ last = NoCall
  /\ tasks = NoTasks
  /\ cte = NoCompare

\* const csrf = csrfProtection(options)
Construct ==
  /\ inst = NotConstructed
  /\ inst' = csrfProtection(options)
  /\ UNCHANGED <<options, now, form, last, tasks, cte>>

ConfigNext ==
  \/ Construct
  \/ Advance
  \/ Render
  \/ Submit
  \/ Respond

SpecConfig == ConfigInit /\ [][ConfigNext]_vars

(***************************************************************************)
(* A caller that keeps the fieldNames object it passed.  csrfProtection    *)
(* destructures options: the closures hold the caller's fieldNames object  *)
(* itself, not a copy of its two properties, and read fieldNames.token and *)
(* fieldNames.time at every call.                                          *)
(***************************************************************************)
\* the strings the caller writes: fieldNames.token = 't"', fieldNames.time = 'm<'
AssignedNames == [token |-> <<116, 34>>, time |-> <<109, 60>>]

\* fieldNames.token = ... or fieldNames.time = ... by the caller, between
\* two requests
SetFieldName ==
  /\ inst.ok
  /\ last = NoCall
  /\ options.fieldNames.k = "object"
  /\ \E field \in {"token", "time"} :
       /\ options' = [options EXCEPT !.fieldNames[field] = Str(AssignedNames[field])]
       /\ inst' = [inst EXCEPT !.fieldNames[field] = AssignedNames[field]]
  /\ UNCHANGED <<now, form, last, tasks, cte>>

AliasNext ==
  \/ Construct
  \/ SetFieldName
  \/ Advance
  \/ Render
  \/ Submit
  \/ Respond

SpecAlias == ConfigInit /\ [][AliasNext]_vars

(***************************************************************************)
(* constantTimeEquals(a, b), statement by statement: the declarations of   *)
(* lines 5 to 9, one step per iteration of the for loop, and the return.   *)
(***************************************************************************)
\* the longest string the comparison is followed on
MaxLen == 3

CompareChars == {97, 98}

RECURSIVE StringsOfLength(_)
StringsOfLength(n) ==
  IF n = 0 THEN {<< >>}
  ELSE {Append(str, c) : str \in StringsOfLength(n - 1), c \in CompareChars}

\* the arguments: undefined, null, and every string over "a", "b" up to MaxLen
CompareInputs ==
  {Undefined, Null} \cup {Str(str) : str \in UNION {StringsOfLength(n) : n \in 0..MaxLen}}

\* no options object: constantTimeEquals is exported on its own
NoOptions == [secret |-> Undefined, fieldNames |-> Undefined, ttl |-> Undefined]

EqualsInit ==
  /\ options = NoOptions
  /\ inst = NotConstructed
  /\ now = 0
  /\ form = NoForm
  /\ last = NoCall
  /\ tasks = NoTasks
  /\ \E a, b \in CompareInputs :
       cte = [pc |-> "call", a |-> a, b |-> b, strA |-> << >>, strB |-> << >>,
              result |-> 0, maxLength |-> 0, i |-> 0, iterations |-> 0,
              returned |-> FALSE]

\* const strA = String(a || ""); const strB = String(b || "");
\* let result = strA.length ^ strB.length; const maxLength = Math.max(...); i = 0
CteEnter ==
  /\ cte.pc = "call"
  /\ LET strA == OrEmpty(cte.a)
         strB == OrEmpty(cte.b)
     IN cte' = [cte EXCEPT !.pc = "loop", !.strA = strA, !.strB = strB,
                           !.result = BitXor(Len(strA), Len(strB)),
                           !.maxLength = Max(Len(strA), Len(strB)),
                           !.i = 0]
  /\ UNCHANGED <<options, inst, now, form, last, tasks>>

\* the loop is left as soon as a difference has been seen
LoopContinues_UntilDifference(i, maxLength, result) == i < maxLength /\ result = 0

\* the condition of the for loop, i < maxLength: result plays no part in it
LoopContinues(i, maxLength, result) == i < maxLength

\* result = charA ^ charB
Accumulate_Overwrites(result, charA, charB) == BitXor(charA, charB)

\* result |= charA ^ charB
Accumulate(result, charA, charB) == BitOr(result, BitXor(charA, charB))

\* one iteration of the loop body, then i++
CteIterate ==
  /\ cte.pc = "loop"
  /\ LoopContinues(cte.i, cte.maxLength, cte.result)
  /\ LET i == cte.i
         charA == IF i < Len(cte.strA) THEN CharCodeAt(cte.strA, i) ELSE 0
         charB == IF i < Len(cte.strB) THEN CharCodeAt(cte.strB, i) ELSE 0
     IN cte' = [cte EXCEPT !.result = Accumulate(cte.result, charA, charB),
                           !.i = i + 1,
                           !.iterations = cte.iterations + 1]
  /\ UNCHANGED <<options, inst, now, form, last, tasks>>

\* return result === 0
CteReturn ==
  /\ cte.pc = "loop"
  /\ ~LoopContinues(cte.i, cte.maxLength, cte.result)
  /\ cte' = [cte EXCEPT !.pc = "returned", !.returned = (cte.result = 0)]
  /\ UNCHANGED <<options, inst, now, form, last, tasks>>

EqualsNext ==
  \/ CteEnter
  \/ CteIterate
  \/ CteReturn

SpecEquals == EqualsInit /\ [][EqualsNext]_vars

(***************************************************************************)
(* Concurrent service (request per thread).  Each invocation of middleware *)
(* or csrfTokenHtml runs its statements in order with its own req and its  *)
(* own locals; between any two of its steps other invocations take steps   *)
(* and the clock ticks.  The steps are cut where the code reads what       *)
(* invocations share: fieldNames and Date.now() (lines 60-62, 84), secret  *)
(* (lines 68, 86) and ttl (line 75).                                       *)
(***************************************************************************)
\* how many invocations are in progress at once
MaxTasks == 2

TaskIds == 1..MaxTasks

IdleTask ==
  [pc |-> "idle", op |-> "none", req |-> Undefined, token |-> Undefined,
   time |-> Undefined, nowRead |-> 0, expected |-> << >>, age |-> NaN,
   result |-> Undefined]

\* custom field names and a ttl of one tick
ConcurrentOptions ==
  { [secret |-> SecretB, fieldNames |-> CustomFieldNames, ttl |-> Num(1)] }

\* the requests being served.  csrfTokenHtml: the GET of the page, from
\* address "1" and user agent "2".  middleware: that GET, the form rendered
\* at time 0 posted by that client, and the same post with a junk token.
ConcurrentRequests(c, op) ==
  LET ip == Str(<<49>>)
      ua == Str(<<50>>)
      time == Str(DecimalString(0))
      body(kind) == Body(c.fieldNames.token, TokenOf(kind, c, ip, ua, time),
                         c.fieldNames.time, time)
  IN IF op = "csrfTokenHtml"
     THEN {Request(GET, ip, ua, Undefined)}
     ELSE { Request(GET, ip, ua, Undefined),
            Request(POST, ip, ua, body("signed")),
            Request(POST, ip, ua, body("junk")) }

ConcurrentInit ==
  /\ options \in ConcurrentOptions
  /\ inst = csrfProtection(options)
  /\ now = 0
  /\ form = NoForm
  /\ last = NoCall
  /\ tasks = [t \in TaskIds |-> IdleTask]
  /\ cte = NoCompare

\* the clock ticks
Tick ==
  /\ now < MaxSmall
  /\ now' = now + 1
  /\ UNCHANGED <<options, inst, form, last, tasks, cte>>

\* a request arrives and is handed to csrf.middleware or to csrf.csrfTokenHtml
TaskCall(t) ==
  /\ tasks[t].pc = "idle"
  /\ \E op \in {"middleware", "csrfTokenHtml"} :
     \E req \in ConcurrentRequests(inst, op) :
       tasks' = [tasks EXCEPT ![t] = [IdleTask EXCEPT !.pc = "entered", !.op = op,
                                                        !.req = req]]
  /\ UNCHANGED <<options, inst, now, form, last, cte>>

\* every invocation sees the locals of the first one
LocalsOf_Shared(t, ts) == ts[1]

\* the locals (token, time, now, expected, age) of invocation t
LocalsOf(t, ts) == ts[t]

Finish(t, result) ==
  tasks' = [tasks EXCEPT ![t].pc = "done", ![t].result = result]

\* middleware, lines 57 to 62: the method check, then token, time and now
MwEnter(t) ==
  /\ tasks[t].pc = "entered"
  /\ tasks[t].op = "middleware"
  /\ LET req == tasks[t].req IN
     IF isExemptMethod(req.method)
     THEN Finish(t, Returned(<<NoError>>))
     ELSE tasks' = [tasks EXCEPT ![t].pc = "read",
                                 ![t].token = BodyGet(req.body, inst.fieldNames.token),
                                 ![t].time = BodyGet(req.body, inst.fieldNames.time),
                                 ![t].nowRead = now]
  /\ UNCHANGED <<options, inst, now, form, last, cte>>

\* middleware, lines 64 to 69: the missing check, then expected and age
MwSign(t) ==
  /\ tasks[t].pc = "read"
  /\ LET l == LocalsOf(t, tasks) IN
     IF isMissing(l.token, l.time)
     THEN Finish(t, Returned(<<makeCsrfError("Missing CSRF token or timestamp")>>))
     ELSE IF \/ getUserIdentifierThrows(tasks[t].req)
             \/ generateTokenThrows(inst.secret, getUserIdentifier(tasks[t].req),
                                    l.time)
     THEN Finish(t, Threw)
     ELSE tasks' = [tasks EXCEPT
                      ![t].pc = "signed",
                      ![t].expected = generateToken(inst.secret,
                                                    getUserIdentifier(tasks[t].req),
                                                    l.time),
                      ![t].age = Minus(l.nowRead, ToNumber(l.time))]
  /\ UNCHANGED <<options, inst, now, form, last, cte>>

\* middleware, lines 71 to 79: the comparison, the freshness test and next
MwDecide(t) ==
  /\ tasks[t].pc = "signed"
  /\ LET l == LocalsOf(t, tasks) IN
     IF ToPrimitiveThrows(l.token)
     THEN Finish(t, Threw)
     ELSE IF ~constantTimeEquals(l.token, Str(l.expected))
     THEN Finish(t, Returned(<<makeCsrfError("Invalid CSRF token")>>))
     ELSE IF isExpired(l.age, inst.ttl)
     THEN Finish(t, Returned(<<makeCsrfError("Expired CSRF token")>>))
     ELSE Finish(t, Returned(<<NoError>>))
  /\ UNCHANGED <<options, inst, now, form, last, cte>>

\* csrfTokenHtml, line 84: const time = Date.now().toString()
HtmlTime(t) ==
  /\ tasks[t].pc = "entered"
  /\ tasks[t].op = "csrfTokenHtml"
  /\ tasks' = [tasks EXCEPT ![t].pc = "timed",
                             ![t].time = Str(DecimalString(now)),
                             ![t].nowRead = now]
  /\ UNCHANGED <<options, inst, now, form, last, cte>>

\* csrfTokenHtml, lines 85 to 90: the token and the markup
HtmlMarkup(t) ==
  /\ tasks[t].pc = "timed"
  /\ LET l == LocalsOf(t, tasks)
         userId == getUserIdentifier(tasks[t].req)
     IN IF \/ getUserIdentifierThrows(tasks[t].req)
           \/ generateTokenThrows(inst.secret, userId, l.time)
        THEN Finish(t, Threw)
        ELSE Finish(t, <<[name |-> inst.fieldNames.token,
                          value |-> generateToken(inst.secret, userId, l.time)],
                         [name |-> inst.fieldNames.time,
                          value |-> ToStringJS(l.time)]>>)
  /\ UNCHANGED <<options, inst, now, form, last, cte>>

\* the result has gone to the pipeline; the thread takes another request
TaskReturn(t) ==
  /\ tasks[t].pc = "done"
  /\ tasks' = [tasks EXCEPT ![t] = IdleTask]
  /\ UNCHANGED <<options, inst, now, form, last, cte>>

ConcurrentNext ==
  \/ Tick
  \/ \E t \in TaskIds : TaskCall(t)
  \/ \E t \in TaskIds : MwEnter(t)
  \/ \E t \in TaskIds : MwSign(t)
  \/ \E t \in TaskIds : MwDecide(t)
  \/ \E t \in TaskIds : HtmlTime(t)
  \/ \E t \in TaskIds : HtmlMarkup(t)
  \/ \E t \in TaskIds : TaskReturn(t)

SpecConcurrent == ConcurrentInit /\ [][ConcurrentNext]_vars

(***************************************************************************)
(* Vocabulary of the properties, written from the specification.           *)
(***************************************************************************)
\* Rejected(reason): next received one error, with the CSRF code and this message
Rejected(result, message) ==
  /\ ~result.threw
  /\ result.next = <<[code |-> "EBADCSRFTOKEN", message |-> message]>>

RejectedMissing(result) == Rejected(result, "Missing CSRF token or timestamp")
RejectedInvalid(result) == Rejected(result, "Invalid CSRF token")
RejectedExpired(result) == Rejected(result, "Expired CSRF token")

\* a configuration as section 3 defines it: the secret is a string and the ttl
\* is a positive finite number
ValidConfig(c) == c.ok /\ IsStr(c.secret) /\ c.ttl.k = "number" /\ c.ttl.n > 0

\* the method, compared without regard to letter case, is GET, HEAD or OPTIONS
LowerChar(c) == IF c >= 65 /\ c <= 90 THEN c + 32 ELSE c
LowerCase(str) == [i \in 1..Len(str) |-> LowerChar(str[i])]
SafeMethod(req) ==
  LowerCase(req.method) \in {LowerCase(GET), LowerCase(HEAD), LowerCase(OPTIONS)}

\* the value the body holds under a name (undefined without a body)
Field(req, name) ==
  IF req.body.k # "object" \/ name \notin DOMAIN req.body.fields
  THEN Undefined
  ELSE req.body.fields[name]
TokenField(req) == Field(req, inst.fieldNames.token)
TimeField(req) == Field(req, inst.fieldNames.time)

\* a field that is absent or empty; a field that holds a non-empty string
Missing(v) == v.k = "undefined" \/ (IsStr(v) /\ v.s = << >>)
NonEmptyString(v) == IsStr(v) /\ v.s # << >>

\* identity(request): the address, then the user agent, each "" when absent
StringOrEmpty(v) == IF IsStr(v) THEN v.s ELSE << >>
Identity(req) == StringOrEmpty(req.ip) \o StringOrEmpty(req.headers["user-agent"])

\* issue(identity(request), time string) under the configured secret
Issue(req, timeString) == Hmac(inst.secret.s, Identity(req) \o timeString)

\* a presented time: a non-empty string, or a number (a JSON body may hold the
\* time as a number), and its text: the string itself, the number's decimal
\* string
PresentedTime(v) == NonEmptyString(v) \/ (v.k = "number" /\ v.n # 0)
TimeString(v) ==
  IF IsStr(v) THEN v.s
  ELSE IF v.n < 0 THEN <<45>> \o DecimalString(0 - v.n)
  ELSE DecimalString(v.n)

\* the token field is the token issue gives for the request and its time field
CorrectlySigned(req) ==
  /\ NonEmptyString(TokenField(req))
  /\ PresentedTime(TimeField(req))
  /\ TokenField(req).s = Issue(req, TimeString(TimeField(req)))

\* the time field parses to a finite number
FiniteTime(req) == StringToNumber(TimeString(TimeField(req))).k = "number"
TimeOf(req) == StringToNumber(TimeString(TimeField(req))).n

Called == inst.ok /\ last # NoCall

(***************************************************************************)
(* C1.  On a request whose method is not GET, HEAD or OPTIONS in any       *)
(* letter case, the middleware of a valid configuration lets the request   *)
(* through only if both fields are present and non-empty, the token is the *)
(* one issue gives for the request's identity and presented time string,   *)
(* and the time parses to a finite number with 0 <= now - time <= ttl.     *)
(* Every other outcome is not an acceptance.                               *)
(***************************************************************************)
C1_AcceptedOnlyIfSignedAndFresh ==
  (Called /\ ValidConfig(inst) /\ ~SafeMethod(last.req) /\ Accepted(last.result))
    => /\ CorrectlySigned(last.req)
       /\ FiniteTime(last.req)
       /\ 0 <= now - TimeOf(last.req)
       /\ now - TimeOf(last.req) <= inst.ttl.n

\* an unsafe request was accepted some time after its token was issued
C1_Witness ==
  /\ Called /\ ValidConfig(inst) /\ ~SafeMethod(last.req)
  /\ Accepted(last.result)
  /\ now - TimeOf(last.req) > 0

(***************************************************************************)
(* C2.  Round trip: the token and time that csrfTokenHtml renders for a    *)
(* request, posted back verbatim under the configured field names on the   *)
(* same request at the same clock reading with an unsafe method, are       *)
(* accepted: next is called with no error.                                 *)
(***************************************************************************)
SameClient(reqA, reqB) == reqA.ip = reqB.ip /\ reqA.headers = reqB.headers

RoundTrip ==
  /\ Called /\ ValidConfig(inst)
  /\ last.k = "submit"
  /\ form.at = now
  /\ SameClient(form.req, last.req)
  /\ ~SafeMethod(last.req)

C2_RoundTripAccepted == RoundTrip => Accepted(last.result)

\* a round trip under custom field names, at a clock reading other than 0
C2_Witness ==
  /\ RoundTrip
  /\ inst.fieldNames.token # DefaultTokenField
  /\ now > 0
  /\ Accepted(last.result)

(***************************************************************************)
(* C3.  A request whose method is GET, HEAD or OPTIONS in any letter case  *)
(* is let through whatever its body holds: no body, an empty body, or a    *)
(* body with an invalid or expired token.                                  *)
(***************************************************************************)
C3_SafeMethodsAccepted ==
  (Called /\ ValidConfig(inst) /\ SafeMethod(last.req)) => Accepted(last.result)

\* a lower-case "head" request carrying a badly signed token was let through
C3_Witness ==
  /\ Called /\ ValidConfig(inst)
  /\ last.req.method = LowerCase(HEAD)
  /\ NonEmptyString(TokenField(last.req))
  /\ NonEmptyString(TimeField(last.req))
  /\ ~CorrectlySigned(last.req)
  /\ Accepted(last.result)

(***************************************************************************)
(* C4.  On an unsafe-method request, when the token field or the time      *)
(* field is absent or empty, or the body is absent, the outcome is the     *)
(* rejection "Missing CSRF token or timestamp", whatever the other field   *)
(* holds, and the middleware raises nothing itself.                        *)
(***************************************************************************)
FieldMissing(req) == Missing(TokenField(req)) \/ Missing(TimeField(req))

C4_MissingFieldsRejected ==
  (Called /\ ValidConfig(inst) /\ ~SafeMethod(last.req) /\ FieldMissing(last.req))
    => RejectedMissing(last.result)

(***************************************************************************)
(* C5.  The signature check precedes the freshness check: on an            *)
(* unsafe-method request with both fields present, a token that is not the *)
(* one issue gives for the request's identity and presented time is        *)
(* rejected as "Invalid CSRF token" for every presented time value, and    *)
(* "Expired CSRF token" is the outcome only when the signature matches.    *)
(***************************************************************************)
BothPresent(req) == ~Missing(TokenField(req)) /\ ~Missing(TimeField(req))

C5_SignatureBeforeFreshness ==
  (Called /\ ValidConfig(inst) /\ ~SafeMethod(last.req) /\ BothPresent(last.req))
    => /\ ~CorrectlySigned(last.req) => RejectedInvalid(last.result)
       /\ RejectedExpired(last.result) => CorrectlySigned(last.req)

(***************************************************************************)
(* C6.  Freshness: a correctly signed token with time T is accepted at     *)
(* every clock reading from T up to, but short of, T + ttl; it is rejected *)
(* as expired at every reading after T + ttl, and at every reading before  *)
(* T (a token from the future).  This holds for the default ttl and for a  *)
(* custom ttl.                                                             *)
(***************************************************************************)
SignedWithTime ==
  /\ Called /\ ValidConfig(inst) /\ ~SafeMethod(last.req)
  /\ CorrectlySigned(last.req)
  /\ FiniteTime(last.req)

C6_Freshness ==
  SignedWithTime =>
    LET T == TimeOf(last.req)
        ttl == inst.ttl.n
    IN /\ (T <= now /\ now < T + ttl) => Accepted(last.result)
       /\ now > T + ttl => RejectedExpired(last.result)
       /\ T > now => RejectedExpired(last.result)

\* under a custom ttl, a token one tick past T + ttl is rejected as expired
C6_Witness ==
  /\ SignedWithTime
  /\ inst.ttl.n # DefaultTtl
  /\ now = TimeOf(last.req) + inst.ttl.n + 1
  /\ RejectedExpired(last.result)

(***************************************************************************)
(* C7.  Fail closed on the time field: when the token correctly signs the  *)
(* presented time string and that string does not parse to a finite        *)
(* number, the outcome is the rejection "Expired CSRF token"; the request  *)
(* is never let through and nothing is raised.                             *)
(***************************************************************************)
C7_NonNumericTimeExpired ==
  (/\ Called /\ ValidConfig(inst) /\ ~SafeMethod(last.req)
   /\ CorrectlySigned(last.req)
   /\ ~FiniteTime(last.req))
    => RejectedExpired(last.result)

\* the correctly signed time "a", which parses to NaN, is rejected as expired
C7_Witness ==
  /\ Called /\ ValidConfig(inst) /\ ~SafeMethod(last.req)
  /\ CorrectlySigned(last.req)
  /\ StringToNumber(TimeString(TimeField(last.req))) = NaN
  /\ RejectedExpired(last.result)

(***************************************************************************)
(* C8.  Tamper sensitivity: when one character of an accepted token is     *)
(* replaced by a different character, at any position, the same request    *)
(* at the same clock reading is rejected as "Invalid CSRF token".          *)
(***************************************************************************)
DifferAt(strA, strB) == {i \in 1..Len(strA) : strA[i] # strB[i]}

TamperedOnce ==
  /\ Called /\ ValidConfig(inst)
  /\ last.k = "tamper"
  /\ Len(TokenField(last.req).s) = Len(TokenField(last.base).s)
  /\ Cardinality(DifferAt(TokenField(last.req).s, TokenField(last.base).s)) = 1
  /\ CorrectlySigned(last.base)

C8_TamperedTokenInvalid == TamperedOnce => RejectedInvalid(last.result)

\* the last character of the token was replaced
C8_Witness ==
  /\ TamperedOnce
  /\ DifferAt(TokenField(last.req).s, TokenField(last.base).s) = {DigestHexLength}
  /\ RejectedInvalid(last.result)

(***************************************************************************)
(* C9.  Identity binding: a token rendered for request A and presented on  *)
(* a request B whose source address differs from A's is rejected as        *)
(* "Invalid CSRF token", whatever the user agents of A and B.              *)
(***************************************************************************)
C9_OtherAddressRejected ==
  (/\ Called /\ ValidConfig(inst)
   /\ last.k = "submit"
   /\ ~SafeMethod(last.req)
   /\ last.req.ip # form.req.ip)
    => RejectedInvalid(last.result)

(***************************************************************************)
(* C10.  Continuation contract: every call of the middleware invokes next  *)
(* exactly once, with no error or with an error whose code is              *)
(* EBADCSRFTOKEN and whose message is one of the three rejection messages; *)
(* it never raises instead of calling next.                                *)
(***************************************************************************)
CsrfMessages ==
  {"Missing CSRF token or timestamp", "Invalid CSRF token", "Expired CSRF token"}

C10_NextCalledExactlyOnce ==
  Called =>
    /\ ~last.result.threw
    /\ Len(last.result.next) = 1
    /\ \/ last.result.next[1] = NoError
       \/ /\ last.result.next[1].code = "EBADCSRFTOKEN"
          /\ last.result.next[1].message \in CsrfMessages

(***************************************************************************)
(* C11.  Stateless replay: a correctly signed token and time, presented on *)
(* the same request, are accepted at every clock reading t with            *)
(* 0 <= t - time <= ttl, however many times and with whatever outcomes the *)
(* same request was presented before.                                      *)
(***************************************************************************)
InWindow(req) ==
  /\ FiniteTime(req)
  /\ 0 <= now - TimeOf(req)
  /\ now - TimeOf(req) <= inst.ttl.n

C11_ReplayAccepted ==
  (/\ Called /\ ValidConfig(inst) /\ ~SafeMethod(last.req)
   /\ CorrectlySigned(last.req)
   /\ InWindow(last.req))
    => Accepted(last.result)

\* the request is accepted at age ttl exactly, on its third presentation,
\* after an earlier rejection and an earlier acceptance
C11_Witness ==
  /\ Called /\ ValidConfig(inst)
  /\ last.k = "replay"
  /\ Len(last.seen) = 2
  /\ \E i \in 1..2 : Accepted(last.seen[i].result)
  /\ \E i \in 1..2 : RejectedExpired(last.seen[i].result)
  /\ CorrectlySigned(last.req)
  /\ FiniteTime(last.req)
  /\ now - TimeOf(last.req) = inst.ttl.n
  /\ Accepted(last.result)

(***************************************************************************)
(* C12.  Construction fails for every secret that is absent, empty,        *)
(* shorter than 32 characters or not a string, and succeeds for every      *)
(* string secret of 32 characters or more when fieldNames and ttl are left *)
(* at their defaults.                                                      *)
(***************************************************************************)
Constructed == inst # NotConstructed

DefaultsOtherwise == options.fieldNames.k = "undefined" /\ options.ttl.k = "undefined"

C12_SecretChecked ==
  Constructed =>
    /\ (~IsStr(options.secret) \/ Len(options.secret.s) < 32) => ~inst.ok
    /\ (/\ IsStr(options.secret) /\ Len(options.secret.s) >= 32
        /\ DefaultsOtherwise) => inst.ok

(***************************************************************************)
(* C13.  Construction fails whenever a ttl is provided that is not a       *)
(* positive finite number (zero, negative, NaN, infinite, not a number),   *)
(* so no instance with such a ttl ever renders a form or validates a       *)
(* request.                                                                *)
(***************************************************************************)
PositiveFinite(v) == v.k = "number" /\ v.n > 0

C13_TtlChecked ==
  /\ (Constructed /\ options.ttl.k # "undefined" /\ ~PositiveFinite(options.ttl))
       => ~inst.ok
  /\ (form # NoForm \/ last # NoCall) => PositiveFinite(inst.ttl)

(***************************************************************************)
(* C14.  Construction fails when either configured field name is not a     *)
(* non-empty string of the characters A-Z, a-z, 0-9, underscore and        *)
(* hyphen, and when the two names are equal; it succeeds only when both    *)
(* names are such strings and differ.                                      *)
(***************************************************************************)
NameChars == (65..90) \cup (97..122) \cup (48..57) \cup {95, 45}

WellFormedName(v) ==
  /\ IsStr(v)
  /\ v.s # << >>
  /\ \A i \in 1..Len(v.s) : v.s[i] \in NameChars

\* the names the options configure: fieldNames.token and fieldNames.time
ConfiguredName(field) ==
  IF options.fieldNames.k = "object" /\ field \in DOMAIN options.fieldNames
  THEN options.fieldNames[field]
  ELSE Undefined

NamesConfigured == options.fieldNames.k # "undefined"

C14_FieldNamesChecked ==
  (Constructed /\ NamesConfigured) =>
    (inst.ok <=> /\ WellFormedName(ConfiguredName("token"))
                 /\ WellFormedName(ConfiguredName("time"))
                 /\ ConfiguredName("token") # ConfiguredName("time")
                 /\ IsStr(options.secret) /\ Len(options.secret.s) >= 32)

\* a token name that starts with "[", next to a well-formed time name, made
\* construction fail
C14_Witness ==
  /\ Constructed
  /\ NamesConfigured
  /\ ConfiguredName("token") = Str(<<91, 97, 98>>)
  /\ WellFormedName(ConfiguredName("time"))
  /\ ~inst.ok

(***************************************************************************)
(* C15.  Field names are immutable after construction: from the moment     *)
(* csrfProtection has returned, the names the instance emits and reads     *)
(* stay the names that were validated, whatever the caller does with the   *)
(* fieldNames object it passed; every rendered form carries two different  *)
(* names made of A-Z, a-z, 0-9, underscore and hyphen.                     *)
(***************************************************************************)
RenderedNamesWellFormed ==
  form # NoForm =>
    /\ WellFormedName(Str(form.markup[1].name))
    /\ WellFormedName(Str(form.markup[2].name))
    /\ form.markup[1].name # form.markup[2].name

C15_FieldNamesImmutable ==
  [][inst.ok => /\ inst'.fieldNames = inst.fieldNames
                /\ RenderedNamesWellFormed']_vars

(***************************************************************************)
(* C16.  fieldNames.token and fieldNames.time are each optional on their   *)
(* own: a fieldNames object that supplies only one of the two names        *)
(* constructs, and the omitted name is `_csrf_token`, respectively         *)
(* `_csrf_time`, in the forms rendered and in the bodies read.             *)
(***************************************************************************)
OnlyOneName ==
  /\ options.fieldNames.k = "object"
  /\ \/ /\ ConfiguredName("token") = Undefined
        /\ WellFormedName(ConfiguredName("time"))
     \/ /\ ConfiguredName("time") = Undefined
        /\ WellFormedName(ConfiguredName("token"))

NameOrDefault(field, default) ==
  IF ConfiguredName(field) = Undefined THEN default ELSE ConfiguredName(field).s

C16_EachNameOptional ==
  (/\ Constructed /\ OnlyOneName
   /\ IsStr(options.secret) /\ Len(options.secret.s) >= 32)
    => /\ inst.ok
       /\ inst.fieldNames.token = NameOrDefault("token", DefaultTokenField)
       /\ inst.fieldNames.time = NameOrDefault("time", DefaultTimeField)
       /\ form # NoForm =>
            /\ form.markup[1].name = NameOrDefault("token", DefaultTokenField)
            /\ form.markup[2].name = NameOrDefault("time", DefaultTimeField)

(***************************************************************************)
(* C17.  constantTimeEquals(a, b), with null, undefined and "" read as the *)
(* empty string, returns true exactly when the two strings have the same   *)
(* length and the same character at every position; the answer is the same *)
(* with the arguments exchanged.                                           *)
(***************************************************************************)
TextOf(v) == IF IsStr(v) THEN v.s ELSE << >>

SameText(strA, strB) ==
  /\ Len(strA) = Len(strB)
  /\ \A i \in 1..Len(strA) : strA[i] = strB[i]

C17_EqualsExactlyWhenSame ==
  cte.pc = "returned" =>
    /\ cte.returned <=> SameText(TextOf(cte.a), TextOf(cte.b))
    /\ cte.returned <=> constantTimeEquals(cte.b, cte.a)

\* two strings of the greatest length that differ in their first position
\* only are found different
C17_Witness ==
  /\ cte.pc = "returned"
  /\ Len(TextOf(cte.a)) = MaxLen
  /\ Len(TextOf(cte.b)) = MaxLen
  /\ DifferAt(TextOf(cte.a), TextOf(cte.b)) = {1}
  /\ ~cte.returned

(***************************************************************************)
(* C18.  constantTimeEquals does not branch on content: every execution    *)
(* performs exactly max(length(a), length(b)) iterations of its loop, so   *)
(* two executions on arguments of the same lengths perform the same        *)
(* number, and the loop is never left at the first differing character.    *)
(***************************************************************************)
C18_IterationsDependOnLengthsOnly ==
  /\ cte.pc = "returned" =>
       cte.iterations = Max(Len(TextOf(cte.a)), Len(TextOf(cte.b)))
  /\ cte.pc = "loop" =>
       cte.iterations <= Max(Len(TextOf(cte.a)), Len(TextOf(cte.b)))

\* strings that differ from the first character on, and in length, were
\* compared over the full length of the longer one
C18_Witness ==
  /\ cte.pc = "returned"
  /\ Len(TextOf(cte.a)) = 1
  /\ Len(TextOf(cte.b)) = MaxLen
  /\ TextOf(cte.a)[1] # TextOf(cte.b)[1]
  /\ cte.iterations = MaxLen

(***************************************************************************)
(* C19.  Concurrent use is safe without locking: in every interleaving of  *)
(* render and validate invocations on one instance, each invocation ends   *)
(* with the result it gives when run alone on the same request at the      *)
(* clock reading it took, and the instance stays as constructed.           *)
(***************************************************************************)
AloneResult(task) ==
  IF task.op = "middleware"
  THEN middleware(inst, task.req, task.nowRead)
  ELSE csrfTokenHtml(inst, task.req, task.nowRead)

C19_SameResultAsAlone ==
  /\ \A t \in DOMAIN tasks :
       tasks[t].pc = "done" => tasks[t].result = AloneResult(tasks[t])
  /\ tasks # NoTasks => inst = csrfProtection(options)

\* the second invocation accepted a post it had read at time 0 after the
\* clock had moved past the ttl, while the first, on another request, had
\* read its fields and not yet decided
C19_Witness ==
  /\ tasks # NoTasks
  /\ inst.ttl = Num(1)
  /\ now = 2
  /\ tasks[2].pc = "done"
  /\ tasks[2].op = "middleware"
  /\ tasks[2].nowRead = 0
  /\ Accepted(tasks[2].result)
  /\ tasks[1].pc = "signed"
  /\ tasks[1].req # tasks[2].req

(***************************************************************************)
(* C20.  Unambiguous signed message: when the middleware accepts on        *)
(* request B, with presented time string t', the token csrfTokenHtml       *)
(* produced for request A at time t, then B has the source address of A    *)
(* and the user agent of A, and t' is the string t.                        *)
(***************************************************************************)
\* the token presented is the one the form holds from csrfTokenHtml
PresentsRenderedToken ==
  /\ Called /\ ValidConfig(inst)
  /\ last.k = "submit"
  /\ ~SafeMethod(last.req)
  /\ IsStr(TokenField(last.req))
  /\ TokenField(last.req).s = form.markup[1].value

C20_SignedPartsDetermined ==
  (PresentsRenderedToken /\ Accepted(last.result))
    => /\ last.req.ip = form.req.ip
       /\ last.req.headers["user-agent"] = form.req.headers["user-agent"]
       /\ TimeField(last.req) = Str(form.markup[2].value)

====
